---- MODULE Spec2Model ----
(***************************************************************************)
(* Model of the OUI lookup utility (src/src/main.rs).                      *)
(*                                                                         *)
(* A Rust string is modelled as the sequence of its characters, each       *)
(* character a one-element TLA+ string; the one non-ASCII character of the *)
(* model is written "U+00E9" and is two bytes long in UTF-8.  Vendor names *)
(* and messages are only printed, never inspected, and stay TLA+ strings.  *)
(***************************************************************************)
EXTENDS Integers, Sequences, FiniteSets

VARIABLES
    pc,          \* position of the process: start, parse, getpath, open, scan, exited
    args,        \* env::args(): the program name followed by the arguments
    home,        \* the HOME environment variable
    file,        \* what lies at the table path: NoFile or the rows of the file
    parsed,      \* the Result parse_mac returned
    reparsed,    \* parse_mac, and its steps after the length check, applied to the OUI of parsed
    mac,         \* run's local mac (the OUI)
    csv_path,    \* run's local csv_path
    rdr,         \* the csv reader of lookup_oui
    record,      \* the fields of the record the loop of lookup_oui holds
    handle_open, \* whether the reader's file handle is open
    opens,       \* how many times the table file was opened
    env_reads,   \* how many times HOME was read
    stdout,      \* lines written to standard output
    stderr,      \* lines written to standard error
    exit_code    \* the process's exit code, -1 while it runs

vars == <<pc, args, home, file, parsed, reparsed, mac, csv_path, rdr, record,
          handle_open, opens, env_reads, stdout, stderr, exit_code>>

---------------------------------------------------------------------------
(* Bounds of the model *)

MaxHead == 2
MaxFill == 18
MaxRows == 3

---------------------------------------------------------------------------
(* Program constants *)

MIN_MAC_LENGTH == 12
MAX_MAC_LENGTH == 17
OUI_LENGTH == 6

---------------------------------------------------------------------------
(* Strings *)

NonAscii == "U+00E9"

LowerLetters == <<"a","b","c","d","e","f","g","h","i","j","k","l","m",
                  "n","o","p","q","r","s","t","u","v","w","x","y","z">>

UpperLetters == <<"A","B","C","D","E","F","G","H","I","J","K","L","M",
                  "N","O","P","Q","R","S","T","U","V","W","X","Y","Z">>

Separators == {"-", ":", ".", " "}

\* char::len_utf8
len_utf8(c) == IF c = NonAscii THEN 2 ELSE 1

\* str::len: the length in bytes
RECURSIVE str_len(_)
str_len(s) == IF s = <<>> THEN 0 ELSE len_utf8(Head(s)) + str_len(Tail(s))

\* the filter of parse_mac: the characters that are no separator, in order
RECURSIVE remove_separators(_)
remove_separators(s) ==
    IF s = <<>> THEN <<>>
    ELSE IF Head(s) \in Separators THEN remove_separators(Tail(s))
    ELSE <<Head(s)>> \o remove_separators(Tail(s))

\* char::to_ascii_uppercase
char_to_ascii_uppercase(c) ==
    IF \E i \in DOMAIN LowerLetters : LowerLetters[i] = c
    THEN UpperLetters[CHOOSE i \in DOMAIN LowerLetters : LowerLetters[i] = c]
    ELSE c

\* str::to_ascii_uppercase
to_ascii_uppercase(s) == [i \in DOMAIN s |-> char_to_ascii_uppercase(s[i])]

\* Result values
Ok(v) == [tag |-> "Ok", val |-> v]
Err(e) == [tag |-> "Err", val |-> e]
Panic(m) == [tag |-> "Panic", val |-> m]
NoResult == [tag |-> "None", val |-> ""]

\* &s[..n]: the characters of the first n bytes; panics when s is shorter
\* than n bytes or byte n lies inside a character
slice_to(s, n) ==
    IF \E k \in 0..Len(s) : str_len(SubSeq(s, 1, k)) = n
    THEN Ok(SubSeq(s, 1, CHOOSE k \in 0..Len(s) : str_len(SubSeq(s, 1, k)) = n))
    ELSE Panic("byte index out of range or not a char boundary")

InvalidMac == "Invalid MAC Address."

\* the length check with both comparisons off by one
invalid_length_off_by_one(m) ==
    str_len(m) <= MIN_MAC_LENGTH \/ str_len(m) >= MAX_MAC_LENGTH

\* the length check without its lower bound
invalid_length_max_only(m) == str_len(m) > MAX_MAC_LENGTH

\* parse_mac's length check
invalid_length(m) == str_len(m) < MIN_MAC_LENGTH \/ str_len(m) > MAX_MAC_LENGTH

\* parse_mac after the length check: clean, uppercase, take the prefix
normalize(m) == slice_to(to_ascii_uppercase(remove_separators(m)), OUI_LENGTH)

parse_mac(m) == IF invalid_length(m) THEN Err(InvalidMac) ELSE normalize(m)

---------------------------------------------------------------------------
(* Inputs *)

Chars(n, c) == [i \in 1..n |-> c]

\* "AA:BB:CC:DD:EE:FF"
MacColon == <<"A","A",":","B","B",":","C","C",":","D","D",":","E","E",":","F","F">>

\* "aa-bb-cc-dd-ee-ff"
MacHyphenLower == <<"a","a","-","b","b","-","c","c","-","d","d","-","e","e","-","f","f">>

\* "001122334455"
MacPlain == <<"0","0","1","1","2","2","3","3","4","4","5","5">>

\* "AA:BB:CC:DD", 11 characters
MacShort == SubSeq(MacColon, 1, MIN_MAC_LENGTH - 1)

\* "AA:BB:CC:DD:EE:FF:", 18 characters
MacLong == MacColon \o <<":">>

\* "::::::::::::", twelve separators
MacColons == Chars(MIN_MAC_LENGTH, ":")

\* "AB:::::::::::"
MacMostlyColons == <<"A","B">> \o Chars(MIN_MAC_LENGTH - 1, ":")

OuiA == <<"A","A","B","B","C","C">>
OuiB == <<"0","0","1","1","2","2">>

ProgramName == <<"o","u","i">>

\* an argument that is not valid Unicode
InvalidByte == "0xFF"
NonUnicodeArg == <<InvalidByte>>

PipelineRaws == {MacColon, MacHyphenLower, MacPlain, MacShort, MacLong, MacColons}

ArgLists ==
    {<<ProgramName>>, <<ProgramName, MacColon, MacColon>>, <<ProgramName, NonUnicodeArg>>}
    \cup {<<ProgramName, r>> : r \in PipelineRaws}

\* the raw strings parse_mac is applied to on its own: a free head followed
\* by a run of one character, or the run followed by the head
Alphabet == {"A", "a", NonAscii} \cup Separators
Heads == UNION {[1..n -> Alphabet] : n \in 0..MaxHead}

ParseRaws ==
    {MacColon, MacHyphenLower, MacPlain, MacMostlyColons}
    \cup {h \o Chars(n, f) : h \in Heads, f \in Alphabet, n \in 0..MaxFill}
    \cup {Chars(n, f) \o h : h \in Heads, f \in Alphabet, n \in 0..MaxFill}

\* the HOME variable: absent, not valid Unicode, or a directory
HomeNotPresent == "<not present>"
HomeNotUnicode == "<not unicode>"
HomeDir == "/home/user"
Homes == {HomeNotPresent, HomeNotUnicode, HomeDir}

\* rows of the table file
Rec(f) == [kind |-> "rec", fields |-> f, utf8 |-> TRUE]
BadUtf8Row == [kind |-> "rec", fields |-> <<OuiB, "<invalid utf-8>">>, utf8 |-> FALSE]
IoErrRow == [kind |-> "ioerr", fields |-> <<>>, utf8 |-> TRUE]

Rows == {Rec(<<OuiA, "Acme Corp">>), Rec(<<OuiA, "Globex">>), Rec(<<OuiA, "">>),
         Rec(<<OuiA>>), Rec(<<OuiB, "Initech">>), Rec(<<OuiB>>),
         BadUtf8Row, IoErrRow}

Tables == UNION {[1..n -> Rows] : n \in 0..MaxRows}

NoFile == [exists |-> FALSE, rows |-> <<>>]
Files == {NoFile} \cup {[exists |-> TRUE, rows |-> t] : t \in Tables}

TablePath == "/home/user/.local/share/oui/IEEE_OUI.csv"

\* the file system: what opening a path finds
fs(path) == IF path = TablePath THEN file ELSE NoFile

---------------------------------------------------------------------------
(* get_csv_path *)

env_var(h) ==
    IF h = HomeNotPresent THEN Err("environment variable not found")
    ELSE IF h = HomeNotUnicode THEN Err("environment variable was not valid unicode")
    ELSE Ok(h)

get_csv_path(h) ==
    IF env_var(h).tag = "Err" THEN env_var(h)
    ELSE Ok(env_var(h).val \o "/.local/share/oui/IEEE_OUI.csv")

---------------------------------------------------------------------------
(* The csv reader: csv::ReaderBuilder::new().delimiter(b';') *)

\* ReaderBuilder's defaults, which lookup_oui does not change
has_headers == TRUE
flexible == FALSE

NoCount == -1
NewReader == [pos |-> 0, first_field_count |-> NoCount, headers |-> FALSE]

\* one row read from the file: an I/O error, the end of the file, or a
\* record, whose field count must equal that of the first row read
read_row(t, rd) ==
    IF rd.pos >= Len(t) THEN [tag |-> "Eof", val |-> "", rdr |-> rd, fields |-> <<>>, utf8 |-> TRUE]
    ELSE LET row == t[rd.pos + 1]
             rd1 == [rd EXCEPT !.pos = @ + 1]
         IN  IF row.kind = "ioerr"
             THEN [tag |-> "Err", val |-> "I/O error reading the table", rdr |-> rd,
                   fields |-> <<>>, utf8 |-> TRUE]
             ELSE IF flexible
             THEN [tag |-> "Ok", val |-> "", rdr |-> rd1, fields |-> row.fields, utf8 |-> row.utf8]
             ELSE IF rd.first_field_count = NoCount
             THEN [tag |-> "Ok", val |-> "",
                   rdr |-> [rd1 EXCEPT !.first_field_count = Len(row.fields)],
                   fields |-> row.fields, utf8 |-> row.utf8]
             ELSE IF Len(row.fields) # rd.first_field_count
             THEN [tag |-> "Err", val |-> "CSV error: found record with a different number of fields",
                   rdr |-> rd1, fields |-> row.fields, utf8 |-> row.utf8]
             ELSE [tag |-> "Ok", val |-> "", rdr |-> rd1, fields |-> row.fields, utf8 |-> row.utf8]

\* the first row read becomes the header row and, with has_headers, is not
\* returned: the row after it is
read_byte_record(t, rd) ==
    LET a == read_row(t, rd)
    IN  IF a.tag = "Err" \/ rd.headers THEN a
        ELSE LET rd2 == [a.rdr EXCEPT !.headers = TRUE]
             IN  IF has_headers THEN read_row(t, rd2) ELSE [a EXCEPT !.rdr = rd2]

\* a record returned as a StringRecord must be valid UTF-8
read_record(t, rd) ==
    LET b == read_byte_record(t, rd)
    IN  IF b.tag = "Ok" /\ ~b.utf8
        THEN [b EXCEPT !.tag = "Err", !.val = "CSV parse error: invalid utf-8"]
        ELSE b

UnknownVendor == "Unknown vendor."

\* the default given for an empty column 1 too
vendor_of_empty_as_absent(fields) ==
    IF Len(fields) >= 2 /\ fields[2] # "" THEN fields[2] ELSE UnknownVendor

\* record.get(1).unwrap_or("Unknown vendor.")
vendor_of(fields) == IF Len(fields) >= 2 THEN fields[2] ELSE UnknownVendor

\* record.get(0) == Some(mac)
matches(fields, m) == Len(fields) >= 1 /\ fields[1] = m

---------------------------------------------------------------------------
(* The process *)

\* the table path resolved before the MAC address is parsed
stage_after_path_first(stage) ==
    IF stage = "start" THEN "getpath"
    ELSE IF stage = "getpath" THEN "parse"
    ELSE IF stage = "parse" THEN "open"
    ELSE "scan"

\* run: the order of its stages
stage_after(stage) ==
    IF stage = "start" THEN "parse"
    ELSE IF stage = "parse" THEN "getpath"
    ELSE IF stage = "getpath" THEN "open"
    ELSE "scan"

Running == -1

\* main: eprintln!("Error: {}", e); process::exit(1)
Fail(e) ==
    /\ stderr' = Append(stderr, "Error: " \o e)
    /\ exit_code' = 1
    /\ pc' = "exited"

\* a panic: the message on standard error, exit code 101
Abort(m) ==
    /\ stderr' = Append(stderr, "thread 'main' panicked: " \o m)
    /\ exit_code' = 101
    /\ pc' = "exited"

\* main returns after run returned Ok
Succeed ==
    /\ stderr' = stderr
    /\ exit_code' = 0
    /\ pc' = "exited"

is_unicode(a) == \A i \in DOMAIN a : a[i] # InvalidByte

\* run: collect the arguments and check their number
CheckArgs ==
    /\ pc = "start"
    /\ IF \E i \in DOMAIN args : ~is_unicode(args[i])
       THEN Abort("argument is not valid unicode")
       ELSE IF Len(args) # 2
       THEN Fail("OUI takes a single argument.")
       ELSE /\ pc' = stage_after("start")
            /\ UNCHANGED <<stderr, exit_code>>
    /\ UNCHANGED <<args, home, file, parsed, reparsed, mac, csv_path, rdr, record,
                   handle_open, opens, env_reads, stdout>>

\* run: let mac = parse_mac(&args[1])?
ParseMac ==
    /\ pc = "parse"
    /\ parsed' = parse_mac(args[2])
    /\ IF parsed'.tag = "Panic" THEN Abort(parsed'.val) /\ mac' = mac
       ELSE IF parsed'.tag = "Err" THEN Fail(parsed'.val) /\ mac' = mac
       ELSE /\ mac' = parsed'.val
            /\ pc' = stage_after("parse")
            /\ UNCHANGED <<stderr, exit_code>>
    /\ UNCHANGED <<args, home, file, reparsed, csv_path, rdr, record,
                   handle_open, opens, env_reads, stdout>>

\* run: let csv_path = get_csv_path()?
GetCsvPath ==
    /\ pc = "getpath"
    /\ env_reads' = env_reads + 1
    /\ IF get_csv_path(home).tag = "Err"
       THEN Fail(get_csv_path(home).val) /\ csv_path' = csv_path
       ELSE /\ csv_path' = get_csv_path(home).val
            /\ pc' = stage_after("getpath")
            /\ UNCHANGED <<stderr, exit_code>>
    /\ UNCHANGED <<args, home, file, parsed, reparsed, mac, rdr, record,
                   handle_open, opens, stdout>>

\* lookup_oui: open the table
OpenTable ==
    /\ pc = "open"
    /\ opens' = opens + 1
    /\ IF ~fs(csv_path).exists
       THEN Fail("No such file or directory (os error 2)") /\ UNCHANGED <<rdr, handle_open>>
       ELSE /\ rdr' = NewReader
            /\ handle_open' = TRUE
            /\ pc' = stage_after("open")
            /\ UNCHANGED <<stderr, exit_code>>
    /\ UNCHANGED <<args, home, file, parsed, reparsed, mac, csv_path, record,
                   env_reads, stdout>>

\* lookup_oui: one turn of the loop over rdr.records(), or its end; the
\* reader is dropped, and its handle closed, when lookup_oui returns
NextRecord ==
    /\ pc = "scan"
    /\ LET r == read_record(fs(csv_path).rows, rdr)
       IN  /\ rdr' = r.rdr
           /\ IF r.tag = "Err"
              THEN /\ Fail(r.val)
                   /\ handle_open' = FALSE
                   /\ UNCHANGED <<record, stdout>>
              ELSE IF r.tag = "Eof"
              THEN /\ stdout' = Append(stdout, "No match.")
                   /\ Succeed
                   /\ handle_open' = FALSE
                   /\ UNCHANGED record
              ELSE /\ record' = r.fields
                   /\ IF matches(r.fields, mac)
                      THEN /\ stdout' = Append(stdout, vendor_of(r.fields))
                           /\ Succeed
                           /\ handle_open' = FALSE
                      ELSE /\ pc' = "scan"
                           /\ UNCHANGED <<stdout, stderr, exit_code, handle_open>>
    /\ UNCHANGED <<args, home, file, parsed, reparsed, mac, csv_path, opens, env_reads>>

Init ==
    /\ pc = "start"
    /\ args \in ArgLists
    /\ home \in Homes
    /\ file \in Files
    /\ parsed = NoResult
    /\ reparsed = <<NoResult, NoResult>>
    /\ mac = <<>>
    /\ csv_path = ""
    /\ rdr = NewReader
    /\ record = <<>>
    /\ handle_open = FALSE
    /\ opens = 0
    /\ env_reads = 0
    /\ stdout = <<>>
    /\ stderr = <<>>
    /\ exit_code = Running

Next == CheckArgs \/ ParseMac \/ GetCsvPath \/ OpenTable \/ NextRecord

Spec == Init /\ [][Next]_vars

---------------------------------------------------------------------------
(* parse_mac on its own *)

\* parse_mac is called on a raw string
CallParseMac ==
    /\ pc = "call"
    /\ parsed' = parse_mac(args[2])
    /\ pc' = "returned"
    /\ UNCHANGED <<args, home, file, reparsed, mac, csv_path, rdr, record,
                   handle_open, opens, env_reads, stdout, stderr, exit_code>>

\* parse_mac is called again, on the OUI it returned
RecallParseMac ==
    /\ pc = "returned"
    /\ parsed.tag = "Ok"
    /\ reparsed' = <<parse_mac(parsed.val), normalize(parsed.val)>>
    /\ pc' = "recalled"
    /\ UNCHANGED <<args, home, file, parsed, mac, csv_path, rdr, record,
                   handle_open, opens, env_reads, stdout, stderr, exit_code>>

InitParse ==
    /\ pc = "call"
    /\ args \in {<<ProgramName, r>> : r \in ParseRaws}
    /\ home = HomeDir
    /\ file = NoFile
    /\ parsed = NoResult
    /\ reparsed = <<NoResult, NoResult>>
    /\ mac = <<>>
    /\ csv_path = ""
    /\ rdr = NewReader
    /\ record = <<>>
    /\ handle_open = FALSE
    /\ opens = 0
    /\ env_reads = 0
    /\ stdout = <<>>
    /\ stderr = <<>>
    /\ exit_code = Running

NextParse == CallParseMac \/ RecallParseMac

SpecParse == InitParse /\ [][NextParse]_vars

---------------------------------------------------------------------------
(* Properties *)

raw == args[2]

IsAscii(s) == \A i \in DOMAIN s : s[i] # NonAscii

HexDigits == {"0","1","2","3","4","5","6","7","8","9",
              "A","B","C","D","E","F","a","b","c","d","e","f"}

\* a MAC address as the data model has it: twelve hexadecimal digits and
\* separators, 12 to 17 characters in all
ValidMac(s) ==
    /\ Len(s) \in 12..17
    /\ \A i \in DOMAIN s : s[i] \in HexDigits \cup Separators
    /\ Len(remove_separators(s)) = 12

\* the rows of the table file, in file order
table == file.rows

\* the lookup ran on a table file that could be opened
LookupRan == pc = "exited" /\ opens = 1 /\ file.exists

IsGoodRow(row) == row.kind = "rec" /\ row.utf8

\* every row is a record of two columns
TwoColumns(t) == \A i \in DOMAIN t : IsGoodRow(t[i]) /\ Len(t[i].fields) = 2

\* every row is a record, all with as many columns
WellFormed(t) ==
    \A i \in DOMAIN t : IsGoodRow(t[i]) /\ Len(t[i].fields) = Len(t[1].fields)

IsMatch(t, i) == IsGoodRow(t[i]) /\ Len(t[i].fields) >= 1 /\ t[i].fields[1] = mac

\* the place of the earliest matching record of the file, 0 when there is none
FirstMatch(t) ==
    IF \E i \in DOMAIN t : IsMatch(t, i)
    THEN CHOOSE i \in DOMAIN t : IsMatch(t, i) /\ \A j \in 1..(i - 1) : ~IsMatch(t, j)
    ELSE 0

\* a row that cannot be read as a record
IsUnparsable(t, i) == ~IsGoodRow(t[i]) \/ Len(t[i].fields) # Len(t[1].fields)

FirstUnparsable(t) ==
    IF \E i \in DOMAIN t : IsUnparsable(t, i)
    THEN CHOOSE i \in DOMAIN t : IsUnparsable(t, i) /\ \A j \in 1..(i - 1) : ~IsUnparsable(t, j)
    ELSE 0

\* C1: when a record of a two-column table has column 0 equal to the OUI,
\* lookup_oui outputs column 1 of the earliest such record of the file, no
\* record being exempt from the scan.
C1_FirstMatchOfFile ==
    (LookupRan /\ TwoColumns(table) /\ FirstMatch(table) > 0)
        => stdout = <<table[FirstMatch(table)].fields[2]>>

\* C1 failing input: the table whose only record is AABBCC;Acme Corp,
\* looked up for AABBCC, gives "No match."
C1_Witness ==
    /\ LookupRan
    /\ table = <<Rec(<<OuiA, "Acme Corp">>)>>
    /\ mac = OuiA
    /\ stdout = <<"No match.">>

\* C2: for every raw string of 12 to 17 ASCII characters parse_mac returns
\* the first 6 characters of the string with its separators deleted and the
\* rest uppercased, which holds no separator and no lowercase letter.
C2_FirstSixOfCleaned ==
    (pc \in {"returned", "recalled"} /\ IsAscii(raw) /\ Len(raw) \in 12..17)
        => /\ parsed.tag = "Ok"
           /\ parsed.val = SubSeq(to_ascii_uppercase(remove_separators(raw)), 1, 6)
           /\ \A i \in DOMAIN parsed.val :
                  /\ parsed.val[i] \notin Separators
                  /\ \A j \in DOMAIN LowerLetters : parsed.val[i] # LowerLetters[j]

\* C2 failing input: "AB:::::::::::" has 13 ASCII characters and parse_mac
\* aborts on it
C2_Witness ==
    /\ pc = "returned"
    /\ raw = MacMostlyColons
    /\ parsed.tag = "Panic"

\* C3: parse_mac fails with the invalid-length error exactly when the length
\* of the raw string, separators included, is below 12 or above 17.
C3_InvalidLengthIff ==
    pc \in {"returned", "recalled"}
        => ((parsed = Err("Invalid MAC Address."))
                <=> (str_len(raw) < 12 \/ str_len(raw) > 17))

\* C3 witness: a raw string of 18 characters that would be 16 long without
\* its separators is refused
C3_Witness ==
    /\ pc = "returned"
    /\ str_len(raw) = 18
    /\ Len(remove_separators(raw)) = 16
    /\ parsed = Err("Invalid MAC Address.")

\* C4 as stated: parse_mac applied to the OUI it returned for a valid MAC
\* address yields that OUI.
C4_ReparseYieldsOui ==
    (pc = "recalled" /\ ValidMac(raw)) => reparsed[1] = Ok(parsed.val)

\* C4 amended: for a valid MAC address, parse_mac applied to the 6-character
\* OUI it returned fails with the invalid-length error, and the steps after
\* the length check (separators removed, uppercased, first 6 characters)
\* applied to the OUI yield that OUI.
C4_OuiIsFixedPointOfSteps ==
    (pc = "recalled" /\ ValidMac(raw))
        => /\ reparsed[1] = Err("Invalid MAC Address.")
           /\ reparsed[2] = Ok(parsed.val)

C4_Witness ==
    /\ pc = "recalled"
    /\ raw = MacHyphenLower
    /\ parsed = Ok(OuiA)
    /\ reparsed[1].tag = "Err"
    /\ reparsed[2] = Ok(OuiA)

\* the loop of lookup_oui ended on a matching record
FoundMatch == pc = "exited" /\ exit_code = 0 /\ matches(record, mac)

\* C5 as stated: on a matching record whose column 1 is absent or empty the
\* output is the unknown-vendor sentinel, and column 1 otherwise.
C5_SentinelForAbsentOrEmpty ==
    FoundMatch
        => stdout = <<IF Len(record) < 2 \/ record[2] = ""
                      THEN "Unknown vendor." ELSE record[2]>>

\* C5 amended: on a matching record whose column 1 is absent the output is
\* the unknown-vendor sentinel; when column 1 is present the output is
\* exactly column 1, an empty line for an empty column 1.
C5_SentinelForAbsentOnly ==
    FoundMatch
        => stdout = <<IF Len(record) < 2 THEN "Unknown vendor." ELSE record[2]>>

C5_Witness ==
    /\ FoundMatch
    /\ record = <<OuiA>>
    /\ stdout = <<"Unknown vendor.">>

\* C6: on a well-formed table with no record whose column 0 equals the OUI,
\* lookup_oui outputs "No match." and succeeds; and "No match." is output
\* only when no record of the table has column 0 equal to the OUI.
C6_NoMatchIff ==
    (LookupRan /\ WellFormed(table))
        => /\ FirstMatch(table) = 0 => (stdout = <<"No match.">> /\ exit_code = 0)
           /\ stdout = <<"No match.">> => FirstMatch(table) = 0

\* C6 failing input: the first record of the file matches and "No match."
\* is output
C6_Witness ==
    /\ LookupRan
    /\ table = <<Rec(<<OuiA, "Acme Corp">>), Rec(<<OuiB, "Initech">>)>>
    /\ mac = OuiA
    /\ stdout = <<"No match.">>
    /\ exit_code = 0

ErrorMessages ==
    {"OUI takes a single argument.", "Invalid MAC Address.",
     "environment variable not found", "No such file or directory (os error 2)",
     "I/O error reading the table",
     "CSV error: found record with a different number of fields",
     "CSV parse error: invalid utf-8"}

\* C7: an invocation ends either with exit code 0, one line on standard
\* output and nothing on standard error, or with a non-zero exit code, one
\* "Error: <message>" line on standard error and nothing on standard output;
\* a wrong argument count, an invalid MAC length, an unset HOME and a table
\* that cannot be opened end in failure.  (Stated for arguments and a HOME
\* that are valid Unicode.)
C7_TwoOutcomes ==
    (pc = "exited" /\ home # HomeNotUnicode /\ \A i \in DOMAIN args : is_unicode(args[i]))
        => /\ \/ exit_code = 0 /\ Len(stdout) = 1 /\ stderr = <<>>
              \/ /\ exit_code # 0
                 /\ stdout = <<>>
                 /\ Len(stderr) = 1
                 /\ stderr[1] \in {"Error: " \o m : m \in ErrorMessages}
           /\ (Len(args) # 2 \/ home = HomeNotPresent \/ ~file.exists) => exit_code # 0

\* C7 failing input: the argument "::::::::::::" ends the process by a panic
C7_Witness ==
    /\ pc = "exited"
    /\ Len(args) = 2
    /\ raw = MacColons
    /\ exit_code = 101
    /\ stdout = <<>>
    /\ stderr[1] \notin {"Error: " \o m : m \in ErrorMessages}

\* C8: for every raw string of length 12 to 17 parse_mac returns Ok or an
\* error and never aborts, and an Ok result is an OUI of 6 characters.
\* (Stated for ASCII strings.)
C8_NeverAborts ==
    (pc \in {"returned", "recalled"} /\ IsAscii(raw) /\ Len(raw) \in 12..17)
        => /\ parsed.tag \in {"Ok", "Err"}
           /\ parsed.tag = "Ok" => Len(parsed.val) = 6

\* C8 failing input: parse_mac aborts on "::::::::::::"
C8_Witness ==
    /\ pc = "returned"
    /\ raw = MacColons
    /\ parsed.tag = "Panic"

ErrorLine(m) == <<"Error: " \o m>>

\* C9: the stages run in the order arity check, parse_mac, get_csv_path,
\* lookup_oui and stop at the first that fails: HOME is read only after the
\* arity check and parse_mac succeeded, the table is opened only after HOME
\* was read successfully, and the error reported is that of the earliest
\* failing stage.
C9_StageOrder ==
    /\ env_reads > 0 => (Len(args) = 2 /\ parsed.tag = "Ok" /\ mac = parsed.val)
    /\ opens > 0 => (env_reads = 1 /\ home = HomeDir /\ csv_path # "")
    /\ env_reads <= 1
    /\ (pc = "exited" /\ \A i \in DOMAIN args : is_unicode(args[i])) =>
          IF Len(args) # 2
          THEN stderr = ErrorLine("OUI takes a single argument.")
               /\ parsed.tag = "None" /\ env_reads = 0 /\ opens = 0
          ELSE IF str_len(raw) < 12 \/ str_len(raw) > 17
          THEN stderr = ErrorLine("Invalid MAC Address.") /\ env_reads = 0 /\ opens = 0
          ELSE IF parsed.tag # "Ok"
          THEN exit_code # 0 /\ env_reads = 0 /\ opens = 0
          ELSE IF home = HomeNotPresent
          THEN stderr = ErrorLine("environment variable not found") /\ opens = 0
          ELSE IF home = HomeNotUnicode
          THEN stderr = ErrorLine("environment variable was not valid unicode") /\ opens = 0
          ELSE IF ~file.exists
          THEN stderr = ErrorLine("No such file or directory (os error 2)") /\ opens = 1
          ELSE opens = 1

\* C9 witness: an invalid-length MAC address with HOME unset reports the
\* invalid-MAC error, and HOME was never read
C9_Witness ==
    /\ pc = "exited"
    /\ Len(args) = 2
    /\ raw = MacShort
    /\ home = HomeNotPresent
    /\ stderr = ErrorLine("Invalid MAC Address.")
    /\ env_reads = 0

\* C10: an unparsable row before the first matching record makes the lookup
\* fail and output nothing; an unparsable row after the first matching
\* record is never read and the vendor is output; the table is opened at
\* most once and its handle is released when lookup_oui returns.
C10_StopsAtFirstMatch ==
    /\ opens <= 1
    /\ LookupRan =>
          LET k == FirstMatch(table)
              b == FirstUnparsable(table)
          IN  /\ ~handle_open
              /\ (k > 0 /\ b > 0 /\ b < k) => (exit_code # 0 /\ stdout = <<>>)
              /\ (k > 0 /\ b > k) =>
                    /\ exit_code = 0
                    /\ stdout = <<vendor_of(table[k].fields)>>
                    /\ rdr.pos < b

\* C10 failing input: the first record of the file matches, the row after
\* it cannot be read, and the lookup fails with nothing output
C10_Witness ==
    /\ LookupRan
    /\ table = <<Rec(<<OuiA, "Acme Corp">>), IoErrRow>>
    /\ mac = OuiA
    /\ exit_code = 1
    /\ stdout = <<>>
    /\ rdr.pos = 1

====
